---- MODULE Spec2Model ----
(***************************************************************************)
(* Model of the RLM MCP server (src/rlm_mcp/server.py): the session        *)
(* registry (repl_sessions, session_reset_counts), the tool handlers of    *)
(* call_tool, REPLEnvironment.execute and the worker process               *)
(* _execute_in_process it spawns.                                          *)
(*                                                                         *)
(* Abstractions.  A Python value is a tag (a string); text is kept only by *)
(* its length; wall-clock time is not measured: a deadline is an action    *)
(* that may fire while the worker is alive, so execution_time is left out  *)
(* of ExecutionResult.  Code is a sequence of statements.                  *)
(***************************************************************************)
EXTENDS Integers, Sequences, FiniteSets

VARIABLES
    repl_sessions,         \* session id -> [globals, execution_count]
    session_reset_counts,  \* session id -> number of resets granted
    pc,                    \* where the dispatcher is: idle, or blocked in execute
    running,               \* session id of the execute call in flight
    process,               \* the worker process: none, running, flushing, exited
    code,                  \* statements the worker has still to execute
    exec_globals,          \* the worker's namespace
    captured,              \* [out, err]: lengths of the worker's captured text
    pending,               \* outcome handed to the queue's feeder thread
    output_queue,          \* outcomes that reached the pipe
    response               \* what the last tool call returned

vars == <<repl_sessions, session_reset_counts, pc, running, process, code,
          exec_globals, captured, pending, output_queue, response>>

(***************************************************************************)
(* Configuration                                                           *)
(***************************************************************************)
MAX_EXECUTIONS_PER_SESSION == 10
MAX_OUTPUT_CHARS == 20000
MAX_SESSION_RESETS == 2
\* Capacity in bytes of the OS pipe behind multiprocessing.Queue().
PIPE_CAPACITY == 65536

(***************************************************************************)
(* Inputs                                                                  *)
(***************************************************************************)
\* The session id the calls use: the default of every tool's session_id.
SessionIds == {"default"}

\* Paths handed to the loaders; "missing.txt" does not exist, "large.txt" is
\* a file larger than the pipe, "small.txt" a short one.
Paths == {"small.txt", "large.txt", "missing.txt"}
path_exists(p) == p \in {"small.txt", "large.txt"}
\* f.read(): the content of a file, as a value tag.
read_file(p) == IF p = "small.txt" THEN "A" ELSE "B"

\* Number of characters (and of pickled bytes, to the precision needed) of a
\* value: "B" is the content of a file larger than the pipe.
SizeOf(v) == IF v \in {"B", "{large.txt:B}"} THEN 200000 ELSE 8

\* Value tags: "v1", "v2" are plain data; "fn" is a function object (callable);
\* "lock" is a non-callable object that cannot be pickled (a module, a lock).
BUILTINS == "builtins"
is_callable(v) == v = "fn"
picklable(v) == v \notin {"fn", "lock", BUILTINS}

\* Statements of submitted code.  "tag" is a stray markup token such as
\* <result>, "blank" an empty line.
Stmt(op, name, value, n) == [op |-> op, name |-> name, value |-> value, n |-> n]
Bind(name, value) == Stmt("bind", name, value, 0)
Del(name) == Stmt("del", name, "-", 0)
StdoutWrite(n) == Stmt("print", "-", "-", n)
StderrWrite(n) == Stmt("eprint", "-", "-", n)
Raise == Stmt("raise", "-", "-", 0)
Exit == Stmt("exit", "-", "-", 0)
Hang == Stmt("hang", "-", "-", 0)
Tag == Stmt("tag", "-", "-", 0)
Blank == Stmt("blank", "-", "-", 0)

\* Length of the stderr text of the submissions that write to stderr.
ErrChars == 3

Codes ==
    { <<Bind("x", "v1")>>,
      <<Tag, Bind("x", "v2"), Tag>>,
      <<Bind("x", "v2"), Raise>>,
      <<Bind("x", "v2"), Hang>>,
      <<Bind("x", "v2"), Exit>>,
      <<Bind("x", "lock")>>,
      <<Bind("x", "fn")>>,
      <<Del("context")>>,
      <<Del("x")>>,
      <<Bind("__builtins__", "v1")>>,
      <<StdoutWrite(MAX_OUTPUT_CHARS + 1), StderrWrite(ErrChars)>>,
      <<Tag, Blank>> }

NoSid == "-"
NoCode == <<>>
EmptyMap == [n \in {} |-> "-"]
NoCapture == [out |-> 0, err |-> 0]
NoOutcome == [success |-> FALSE, output |-> 0, stderr |-> 0, error |-> "-",
              variables |-> EmptyMap]

(***************************************************************************)
(* ExecutionResult and the tool responses                                  *)
(***************************************************************************)
ExecutionResult(output, success, error) ==
    [output |-> output, success |-> success, error |-> error]
NoExecution == ExecutionResult(0, FALSE, "-")

ERR_LIMIT == "Session limit reached"
ERR_TIMEOUT == "TIMEOUT"
ERR_NO_RESULT == "No result from execution"
ERR_SPAWN == "OSError: cannot start process"
EMPTY_CODE_CHARS == 12     \* len("(empty code)")

\* What a tool call answered, with the tool and the session id it was called
\* with, and whether the call found a session under that id (the test
\* "session_id in repl_sessions" of the handlers).
Response(tool, session_id, text, result) ==
    [tool |-> tool, session_id |-> session_id,
     existed |-> session_id \in DOMAIN repl_sessions,
     text |-> text, result |-> result]

\* f: a function; the same function with k mapped to v (dict item assignment).
SetItem(f, k, v) == [n \in DOMAIN f \cup {k} |-> IF n = k THEN v ELSE f[n]]
\* del f[k]
DelItem(f, k) == [n \in DOMAIN f \ {k} |-> f[n]]

(***************************************************************************)
(* The worker: _execute_in_process                                         *)
(***************************************************************************)
\* exec_globals as the worker builds it from the globals it was handed.
seed_exec_globals(globals_dict) ==
    [k \in DOMAIN globals_dict \cup {"__builtins__"} |->
        IF k = "__builtins__" THEN BUILTINS ELSE globals_dict[k]]

\* exec(code, exec_globals) with stdout and stderr redirected: the namespace
\* and the captured lengths when the code stops, and how it stops:
\* "ok" (ran to the end), "raise" (an Exception), "exit" (the process ends
\* at once: SystemExit, os._exit, a crash), "hang" (never returns).
RECURSIVE exec(_, _, _)
exec(c, g, cap) ==
    IF c = <<>> THEN [globals |-> g, captured |-> cap, end |-> "ok", error |-> "None"]
    ELSE LET s == Head(c) IN
        CASE s.op = "bind" -> exec(Tail(c), SetItem(g, s.name, s.value), cap)
          [] s.op = "del" ->
                IF s.name \in DOMAIN g
                THEN exec(Tail(c), DelItem(g, s.name), cap)
                ELSE [globals |-> g, captured |-> cap, end |-> "raise",
                      error |-> "NameError: name is not defined"]
          [] s.op = "print" -> exec(Tail(c), g, [cap EXCEPT !.out = @ + s.n])
          [] s.op = "eprint" -> exec(Tail(c), g, [cap EXCEPT !.err = @ + s.n])
          [] s.op = "raise" ->
                [globals |-> g, captured |-> cap, end |-> "raise",
                 error |-> "RuntimeError: boom"]
          [] s.op \in {"exit", "hang"} ->
                [globals |-> g, captured |-> cap, end |-> s.op, error |-> "None"]
          [] OTHER -> exec(Tail(c), g, cap)

\* result_vars: every name of exec_globals but __builtins__ and the callables.
result_vars(g) ==
    [k \in {n \in DOMAIN g : n # "__builtins__" /\ ~is_callable(g[n])} |-> g[k]]

\* Mutant of worker_outcome: a failed run reports the variables it had bound.
worker_outcome_partial_state(r) ==
    [success |-> r.end = "ok", output |-> r.captured.out, stderr |-> r.captured.err,
     error |-> r.error, variables |-> result_vars(r.globals)]

\* The record put on output_queue after exec returned or raised.
worker_outcome(r) ==
    IF r.end = "ok"
    THEN [success |-> TRUE, output |-> r.captured.out, stderr |-> r.captured.err,
          error |-> "None", variables |-> result_vars(r.globals)]
    ELSE [success |-> FALSE, output |-> r.captured.out, stderr |-> r.captured.err,
          error |-> r.error, variables |-> EmptyMap]

\* The feeder thread of the queue pickles the record: it can when every
\* variable of the snapshot can be pickled.
outcome_picklable(o) == \A k \in DOMAIN o.variables : picklable(o.variables[k])

RECURSIVE sum_sizes(_, _)
sum_sizes(f, ks) ==
    IF ks = {} THEN 0
    ELSE LET k == CHOOSE n \in ks : TRUE IN SizeOf(f[k]) + sum_sizes(f, ks \ {k})

\* Bytes the pickled record takes in the pipe.
outcome_size(o) == o.output + o.stderr + sum_sizes(o.variables, DOMAIN o.variables)

(***************************************************************************)
(* REPLEnvironment                                                         *)
(***************************************************************************)
\* REPLEnvironment.__init__
REPLEnvironment(context) ==
    [globals |-> [k \in {"__builtins__", "context"} |->
                    IF k = "__builtins__" THEN BUILTINS ELSE context],
     execution_count |-> 0]

\* Sanitization.  re.sub(r'</?\w+>', '', code) empties every tag, leaving the
\* line it stood on blank.
sub_tags(c) == [i \in 1..Len(c) |-> IF c[i].op = "tag" THEN Blank ELSE c[i]]
\* Lines that are only a tag are dropped.
drop_tag_lines(c) == SelectSeq(c, LAMBDA s : s.op # "tag")
\* str.strip(): leading and trailing blank lines go.
RECURSIVE lstrip(_)
lstrip(c) == IF c # <<>> /\ Head(c).op = "blank" THEN lstrip(Tail(c)) ELSE c
RECURSIVE rstrip(_)
rstrip(c) ==
    IF c # <<>> /\ c[Len(c)].op = "blank" THEN rstrip(SubSeq(c, 1, Len(c) - 1)) ELSE c
clean_code(c) == rstrip(lstrip(drop_tag_lines(sub_tags(c))))

\* picklable_globals: the entries of _globals that pass the pickle probe.
picklable_globals(g) ==
    [k \in {n \in DOMAIN g : n # "__builtins__" /\ picklable(g[n])} |-> g[k]]

\* output, with stderr under its label when there is any:
\* len("\n[stderr]\n") = 10.
combined_output(result) ==
    IF result.stderr # 0 THEN result.output + 10 + result.stderr ELSE result.output

\* len(f"{n:,}"): the digits of n and a comma before every group of three.
RECURSIVE digits(_)
digits(n) == IF n < 10 THEN 1 ELSE 1 + digits(n \div 10)
comma_len(n) == digits(n) + (digits(n) - 1) \div 3

\* len("\n\n... [OUTPUT TRUNCATED - " + f"{n:,}" + " chars total]")
marker_len(n) == 26 + comma_len(n) + 13

\* Truncate if needed.
truncate(n) == IF n > MAX_OUTPUT_CHARS THEN MAX_OUTPUT_CHARS + marker_len(n) ELSE n

\* Mutant of merge_variables: a name the session already has is not overwritten.
merge_variables_new_only(g, variables) ==
    [k \in DOMAIN g \cup (DOMAIN variables \ {"__builtins__"}) |->
        IF k \in DOMAIN g THEN g[k] ELSE variables[k]]

\* Mutant of merge_variables: the snapshot replaces the namespace.
merge_variables_replaces(g, variables) ==
    [k \in {"__builtins__"} \cup (DOMAIN variables \ {"__builtins__"}) |->
        IF k = "__builtins__" THEN g[k] ELSE variables[k]]

\* Update globals with new variables.
merge_variables(g, variables) ==
    [k \in DOMAIN g \cup (DOMAIN variables \ {"__builtins__"}) |->
        IF k \in DOMAIN variables \ {"__builtins__"} THEN variables[k] ELSE g[k]]

(***************************************************************************)
(* Session registry                                                        *)
(***************************************************************************)
\* "context or ''": a falsy seed becomes the empty string.
or_empty(context) == IF context \in {"", "{}"} THEN "" ELSE context

get_or_create_session(sessions, session_id, context) ==
    IF session_id \notin DOMAIN sessions
    THEN SetItem(sessions, session_id, REPLEnvironment(or_empty(context)))
    ELSE sessions

\* Mutant of clear_session: the old session is left in place.
clear_session_forgotten(sessions, session_id) == sessions

\* Mutant of clear_session: every session is dropped, not only the one named.
clear_session_everything(sessions, session_id) ==
    [s \in {} |-> sessions[s]]

\* "Clear old session": del repl_sessions[session_id] when it is there.
clear_session(sessions, session_id) ==
    IF session_id \in DOMAIN sessions THEN DelItem(sessions, session_id) ELSE sessions

\* session_reset_counts.get(session_id, 0)
reset_count(session_id) ==
    IF session_id \in DOMAIN session_reset_counts
    THEN session_reset_counts[session_id] ELSE 0

\* len(content), as a value tag.
file_size(content) ==
    CASE content = "A" -> "len:A"
      [] content = "B" -> "len:B"
      [] OTHER -> "len:0"

\* The contexts dict of rlm_load_multiple_files: basename -> content of the
\* paths that exist, as a value tag; and the total of their lengths.
existing(file_paths) == {file_paths[i] : i \in {j \in 1..Len(file_paths) : path_exists(file_paths[j])}}
contexts_of(file_paths) ==
    CASE existing(file_paths) = {} -> "{}"
      [] existing(file_paths) = {"small.txt"} -> "{small.txt:A}"
      [] existing(file_paths) = {"large.txt"} -> "{large.txt:B}"
      [] OTHER -> "{small.txt:A,large.txt:B}"
total_size(file_paths) ==
    CASE existing(file_paths) = {} -> "len:0"
      [] existing(file_paths) = {"small.txt"} -> "len:A"
      [] existing(file_paths) = {"large.txt"} -> "len:B"
      [] OTHER -> "len:A+B"

\* Mutant of Idle: a call is taken up while an execute waits for its worker.
Idle_interleaved == pc \in {"idle", "join"}

\* call_tool runs each handler to its return without awaiting: the next call
\* is taken up when none is being handled.
Idle == pc = "idle"
\* The locals of the last execute (process, output_queue) are garbage by the
\* time the next call is handled.
ForgetWorker ==
    /\ running' = NoSid /\ process' = "none" /\ code' = NoCode
    /\ exec_globals' = EmptyMap /\ captured' = NoCapture
    /\ pending' = NoOutcome /\ output_queue' = <<>>
NoWorker ==
    /\ running = NoSid /\ process = "none" /\ code = NoCode
    /\ exec_globals = EmptyMap /\ captured = NoCapture
    /\ pending = NoOutcome /\ output_queue = <<>>
worker_vars == <<running, process, code, exec_globals, captured, pending, output_queue>>

(***************************************************************************)
(* Initial state: the module has just been imported                        *)
(***************************************************************************)
Init ==
    /\ repl_sessions = [s \in {} |-> REPLEnvironment("")]
    /\ session_reset_counts = [s \in {} |-> 0]
    /\ pc = "idle"
    /\ NoWorker
    /\ response = Response("-", NoSid, "-", NoExecution)

(***************************************************************************)
(* call_tool: rlm_load_file                                                *)
(***************************************************************************)
\* Mutant of rlm_load_file: a load spends a reset, and is refused once the
\* reset quota is used up.
rlm_load_file_spends_reset(file_path, session_id) ==
    /\ Idle
    /\ IF reset_count(session_id) >= MAX_SESSION_RESETS
       THEN /\ response' = Response("rlm_load_file", session_id,
                                    "Reset limit reached", NoExecution)
            /\ UNCHANGED <<repl_sessions, session_reset_counts>>
       ELSE /\ repl_sessions' = get_or_create_session(
                   clear_session(repl_sessions, session_id), session_id,
                   read_file(file_path))
            /\ session_reset_counts' =
                   SetItem(session_reset_counts, session_id, reset_count(session_id) + 1)
            /\ response' = Response("rlm_load_file", session_id, "File loaded", NoExecution)
    /\ ForgetWorker
    /\ UNCHANGED pc

rlm_load_file(file_path, session_id) ==
    /\ Idle
    /\ IF ~path_exists(file_path)
       THEN /\ response' = Response("rlm_load_file", session_id, "Error: File not found", NoExecution)
            /\ UNCHANGED repl_sessions
       ELSE LET content == read_file(file_path)
                created == get_or_create_session(
                               clear_session(repl_sessions, session_id), session_id, content)
                repl == created[session_id]
                seeded == SetItem(SetItem(repl.globals, "context_length", file_size(content)),
                                  "file_path", file_path)
            IN /\ repl_sessions' = [created EXCEPT ![session_id].globals = seeded]
               /\ response' = Response("rlm_load_file", session_id, "File loaded", NoExecution)
    /\ ForgetWorker
    /\ UNCHANGED <<session_reset_counts, pc>>

(***************************************************************************)
(* call_tool: rlm_load_multiple_files                                      *)
(***************************************************************************)
rlm_load_multiple_files(file_paths, session_id) ==
    /\ Idle
    /\ LET contexts == contexts_of(file_paths)
           created == get_or_create_session(
                          clear_session(repl_sessions, session_id), session_id, contexts)
           repl == created[session_id]
           seeded == SetItem(repl.globals, "context_length", total_size(file_paths))
       IN /\ repl_sessions' = [created EXCEPT ![session_id].globals = seeded]
          /\ response' = Response("rlm_load_multiple_files", session_id, "files loaded", NoExecution)
    /\ ForgetWorker
    /\ UNCHANGED <<session_reset_counts, pc>>

(***************************************************************************)
(* call_tool: rlm_reset_session                                            *)
(***************************************************************************)
\* Mutant of rlm_reset_session: a granted reset leaves the session in place
\* and does not count.
rlm_reset_session_keeps_session(session_id) ==
    /\ Idle
    /\ IF reset_count(session_id) >= MAX_SESSION_RESETS
       THEN response' = Response("rlm_reset_session", session_id,
                                 "Reset limit reached", NoExecution)
       ELSE response' = Response("rlm_reset_session", session_id,
                                 "Session reset", NoExecution)
    /\ ForgetWorker
    /\ UNCHANGED <<repl_sessions, session_reset_counts, pc>>

\* Mutant of rlm_reset_session: the refusal still deletes the session.
rlm_reset_session_refusal_deletes(session_id) ==
    /\ Idle
    /\ IF reset_count(session_id) >= MAX_SESSION_RESETS
       THEN /\ response' = Response("rlm_reset_session", session_id,
                                    "Reset limit reached", NoExecution)
            /\ repl_sessions' = clear_session(repl_sessions, session_id)
            /\ UNCHANGED session_reset_counts
       ELSE /\ session_reset_counts' =
                   SetItem(session_reset_counts, session_id, reset_count(session_id) + 1)
            /\ repl_sessions' = clear_session(repl_sessions, session_id)
            /\ response' = Response("rlm_reset_session", session_id,
                                    "Session reset", NoExecution)
    /\ ForgetWorker
    /\ UNCHANGED pc

rlm_reset_session(session_id) ==
    /\ Idle
    /\ IF reset_count(session_id) >= MAX_SESSION_RESETS
       THEN /\ response' = Response("rlm_reset_session", session_id, "Reset limit reached", NoExecution)
            /\ UNCHANGED <<repl_sessions, session_reset_counts>>
       ELSE /\ session_reset_counts' =
                   SetItem(session_reset_counts, session_id, reset_count(session_id) + 1)
            /\ repl_sessions' = clear_session(repl_sessions, session_id)
            /\ response' = Response("rlm_reset_session", session_id, "Session reset", NoExecution)
    /\ ForgetWorker
    /\ UNCHANGED pc

(***************************************************************************)
(* call_tool: rlm_execute_code, and REPLEnvironment.execute up to the      *)
(* first return or to process.start()                                      *)
(***************************************************************************)
\* Mutant of limit_reached: the comparison is off by one.
limit_reached_off_by_one(repl) == repl.execution_count > MAX_EXECUTIONS_PER_SESSION

\* Check execution limit
limit_reached(repl) == repl.execution_count >= MAX_EXECUTIONS_PER_SESSION

\* Mutant of count_execution: the increment is forgotten.
count_execution_forgotten(sessions, session_id) == sessions

\* self.execution_count += 1
count_execution(sessions, session_id) ==
    [sessions EXCEPT ![session_id].execution_count = @ + 1]

\* The text call_tool answers with: the OK or the Error status line.
tool_text(result) == IF result.success THEN "OK" ELSE "Error"
executed(session_id, result) ==
    Response("rlm_execute_code", session_id, tool_text(result), result)

\* execute returns.  What is left of its worker (the ended process, the
\* namespace the code left, what is unread in the queue) is described by the
\* worker variables until the next call is handled; nothing reads it.
LeaveWorker ==
    UNCHANGED <<running, process, code, exec_globals, captured, pending>>

\* Mutant of RefuseExecution: the refused call wipes the variables the
\* session gathered.
RefuseExecution_mutating(session_id) ==
    /\ response' = executed(session_id, ExecutionResult(0, FALSE, ERR_LIMIT))
    /\ repl_sessions' = [repl_sessions EXCEPT ![session_id].globals =
                            [k \in {"__builtins__", "context"} |-> @[k]]]
    /\ ForgetWorker
    /\ UNCHANGED pc

\* Mutant of RefuseExecution: the refusal starts the count again.
RefuseExecution_restarts(session_id) ==
    /\ response' = executed(session_id, ExecutionResult(0, FALSE, ERR_LIMIT))
    /\ repl_sessions' = [repl_sessions EXCEPT ![session_id].execution_count = 0]
    /\ ForgetWorker
    /\ UNCHANGED pc

\* Check execution limit: the refusal.
RefuseExecution(session_id) ==
    /\ response' = executed(session_id, ExecutionResult(0, FALSE, ERR_LIMIT))
    /\ ForgetWorker
    /\ UNCHANGED <<repl_sessions, pc>>

\* Mutant of ReturnEmptyCode: an empty submission is not counted.
ReturnEmptyCode_free(session_id) ==
    /\ response' = executed(session_id, ExecutionResult(EMPTY_CODE_CHARS, TRUE, "None"))
    /\ ForgetWorker
    /\ UNCHANGED <<repl_sessions, pc>>

\* "if not code": the cleaned code is empty.
ReturnEmptyCode(session_id) ==
    /\ repl_sessions' = count_execution(repl_sessions, session_id)
    /\ response' = executed(session_id, ExecutionResult(EMPTY_CODE_CHARS, TRUE, "None"))
    /\ ForgetWorker
    /\ UNCHANGED pc

\* process.start() raises: "except Exception as e".
ReturnStartFailed(session_id) ==
    /\ repl_sessions' = count_execution(repl_sessions, session_id)
    /\ response' = executed(session_id, ExecutionResult(0, FALSE, ERR_SPAWN))
    /\ ForgetWorker
    /\ UNCHANGED pc

\* process.start() with the picklable globals, then process.join(timeout).
StartWorker(session_id, cleaned) ==
    /\ repl_sessions' = count_execution(repl_sessions, session_id)
    /\ pc' = "join"
    /\ running' = session_id
    /\ process' = "running"
    /\ code' = cleaned
    /\ exec_globals' = seed_exec_globals(
           picklable_globals(repl_sessions[session_id].globals))
    /\ captured' = NoCapture
    /\ pending' = NoOutcome
    /\ output_queue' = <<>>
    /\ response' = Response("rlm_execute_code", session_id, "-", NoExecution)

\* start_ok: whether process.start() succeeds (it raises when the OS cannot
\* create a process).
rlm_execute_code(session_id, c, start_ok) ==
    /\ Idle
    /\ UNCHANGED session_reset_counts
    /\ IF session_id \notin DOMAIN repl_sessions
       THEN /\ response' = Response("rlm_execute_code", session_id,
                                    "Error: No file loaded", NoExecution)
            /\ ForgetWorker
            /\ UNCHANGED <<repl_sessions, pc>>
       ELSE IF limit_reached(repl_sessions[session_id])
       THEN RefuseExecution(session_id)
       ELSE IF clean_code(c) = <<>>
       THEN ReturnEmptyCode(session_id)
       ELSE IF ~start_ok
       THEN ReturnStartFailed(session_id)
       ELSE StartWorker(session_id, clean_code(c))

(***************************************************************************)
(* The worker process                                                      *)
(***************************************************************************)
Alive == process \in {"running", "flushing"}

\* The process ends, by itself or killed.  Its memory is gone, but
\* exec_globals and the record the worker built stay as the code left them:
\* nothing reads them any more, the properties refer to them.
ProcessEnds ==
    /\ process' = "exited"
    /\ code' = NoCode
    /\ captured' = NoCapture
    /\ UNCHANGED pending

\* exec(code, exec_globals) runs until the code ends, raises, exits or hangs;
\* when it ends or raises, the outcome is put on the queue.
WorkerRun ==
    /\ process = "running"
    /\ code # NoCode /\ Head(code).op # "hang"
    /\ LET r == exec(code, exec_globals, captured) IN
        CASE r.end = "hang" ->
                /\ code' = <<Hang>>
                /\ exec_globals' = r.globals
                /\ captured' = r.captured
                /\ UNCHANGED <<process, pending>>
          [] r.end = "exit" ->
                /\ exec_globals' = r.globals
                /\ ProcessEnds
          [] OTHER ->
                /\ code' = NoCode
                /\ exec_globals' = r.globals
                /\ captured' = r.captured
                /\ process' = "flushing"
                /\ pending' = worker_outcome(r)
    /\ UNCHANGED <<repl_sessions, session_reset_counts, pc, running, output_queue, response>>

\* The queue's feeder thread pickles the record and writes it to the pipe; the
\* process exits once that is done.  A record that cannot be pickled is
\* dropped; one larger than the pipe blocks the write until somebody reads.
WorkerFlush ==
    /\ process = "flushing"
    /\ IF ~outcome_picklable(pending)
       THEN UNCHANGED output_queue
       ELSE /\ outcome_size(pending) <= PIPE_CAPACITY
            /\ output_queue' = Append(output_queue, pending)
    /\ ProcessEnds
    /\ UNCHANGED <<repl_sessions, session_reset_counts, pc, running, exec_globals, response>>

\* SIGTERM or SIGKILL ends the process, whatever it was doing.
WorkerDies ==
    /\ pc \in {"join_term", "join_kill"}
    /\ Alive
    /\ ProcessEnds
    /\ UNCHANGED <<repl_sessions, session_reset_counts, pc, running, exec_globals,
                   output_queue, response>>

(***************************************************************************)
(* REPLEnvironment.execute after process.start()                           *)
(***************************************************************************)
\* Mutant of Deadline: the worker alive at the deadline is killed at once,
\* with no request to terminate and no grace period.
Deadline_kills_at_once ==
    /\ pc = "join" /\ Alive
    /\ pc' = "join_kill"
    /\ UNCHANGED <<repl_sessions, session_reset_counts, worker_vars, response>>

\* process.join(timeout=EXECUTION_TIMEOUT) ends at the deadline with the
\* process alive: process.terminate().
Deadline ==
    /\ pc = "join" /\ Alive
    /\ pc' = "join_term"
    /\ UNCHANGED <<repl_sessions, session_reset_counts, worker_vars, response>>

\* Mutant of GraceExpired: a worker that outlives the grace period is waited
\* for, not killed.
GraceExpired_waits ==
    /\ pc = "join_term" /\ Alive
    /\ UNCHANGED vars

\* process.join(timeout=2) ends with the process still alive: process.kill().
GraceExpired ==
    /\ pc = "join_term" /\ Alive
    /\ pc' = "join_kill"
    /\ UNCHANGED <<repl_sessions, session_reset_counts, worker_vars, response>>

\* Mutant of ReturnTimeout: what the killed worker left in the queue is merged.
ReturnTimeout_salvaging ==
    /\ pc \in {"join_term", "join_kill"} /\ ~Alive
    /\ pc' = "idle"
    /\ response' = [tool |-> "rlm_execute_code", session_id |-> running,
                    existed |-> TRUE, text |-> "Error",
                    result |-> [output |-> 0, success |-> FALSE, error |-> ERR_TIMEOUT]]
    /\ repl_sessions' =
          IF output_queue = <<>> THEN repl_sessions
          ELSE [repl_sessions EXCEPT ![running].globals =
                   [k \in DOMAIN @ \cup DOMAIN Head(output_queue).variables |->
                       IF k \in DOMAIN Head(output_queue).variables
                       THEN Head(output_queue).variables[k] ELSE @[k]]]
    /\ UNCHANGED <<running, process, code, exec_globals, captured, pending>>
    /\ UNCHANGED <<session_reset_counts, output_queue>>

\* The process is gone after terminate() or kill(): the TIMEOUT result.
ReturnTimeout ==
    /\ pc \in {"join_term", "join_kill"} /\ ~Alive
    /\ pc' = "idle"
    /\ response' = executed(running, ExecutionResult(0, FALSE, ERR_TIMEOUT))
    /\ LeaveWorker
    /\ UNCHANGED <<repl_sessions, session_reset_counts, output_queue>>

\* The ExecutionResult built from the record read from the queue.
completed_result(result) ==
    ExecutionResult(truncate(combined_output(result)), result.success, result.error)

\* Mutant of ReturnJoined: an empty queue is taken for a run without output.
ReturnJoined_empty_is_success ==
    /\ pc = "join" /\ ~Alive
    /\ pc' = "idle"
    /\ IF output_queue # <<>>
       THEN LET result == Head(output_queue) IN
            /\ output_queue' = Tail(output_queue)
            /\ repl_sessions' = [repl_sessions EXCEPT ![running].globals =
                                   merge_variables(@, result.variables)]
            /\ response' = executed(running, completed_result(result))
       ELSE /\ response' = executed(running, ExecutionResult(0, TRUE, "None"))
            /\ UNCHANGED <<repl_sessions, output_queue>>
    /\ LeaveWorker
    /\ UNCHANGED session_reset_counts

\* The process exited before the deadline: read the queue.
ReturnJoined ==
    /\ pc = "join" /\ ~Alive
    /\ pc' = "idle"
    /\ IF output_queue # <<>>
       THEN LET result == Head(output_queue) IN
            /\ output_queue' = Tail(output_queue)
            /\ repl_sessions' = [repl_sessions EXCEPT ![running].globals =
                                   merge_variables(@, result.variables)]
            /\ response' = executed(running, completed_result(result))
       ELSE /\ response' = executed(running, ExecutionResult(0, FALSE, ERR_NO_RESULT))
            /\ UNCHANGED <<repl_sessions, output_queue>>
    /\ LeaveWorker
    /\ UNCHANGED session_reset_counts

(***************************************************************************)
(* Specification                                                           *)
(***************************************************************************)
\* The path lists handed to rlm_load_multiple_files.
MultiPaths == { <<"small.txt", "missing.txt">>, <<"missing.txt">> }

Next ==
    \/ \E p \in Paths, s \in SessionIds : rlm_load_file(p, s)
    \/ \E ps \in MultiPaths, s \in SessionIds : rlm_load_multiple_files(ps, s)
    \/ \E s \in SessionIds, c \in Codes, ok \in BOOLEAN : rlm_execute_code(s, c, ok)
    \/ \E s \in SessionIds : rlm_reset_session(s)
    \/ WorkerRun
    \/ WorkerFlush
    \/ WorkerDies
    \/ Deadline
    \/ GraceExpired
    \/ ReturnTimeout
    \/ ReturnJoined

Spec == Init /\ [][Next]_vars

\* process.kill() sends SIGKILL, which no process survives.
KillTakesEffect == pc = "join_kill" /\ WorkerDies

\* The engine's own steps are taken: each join ends at its timeout, and
\* execute goes on to its return.  Nothing is assumed of the code (it may
\* hang) nor of what the worker does on SIGTERM (it may ignore it).
LiveSpec ==
    /\ Spec
    /\ WF_vars(Deadline) /\ WF_vars(GraceExpired) /\ WF_vars(KillTakesEffect)
    /\ WF_vars(ReturnTimeout) /\ WF_vars(ReturnJoined)

(***************************************************************************)
(* Two session ids side by side                                            *)
(***************************************************************************)
\* The session ids of the calls: the default id and one the client chose.
IsolationIds == {"default", "other"}
IsolationPaths == {"small.txt", "missing.txt"}
IsolationMultiPaths == { <<"small.txt", "missing.txt">> }
IsolationCodes == { <<Bind("x", "v1")>>, <<Bind("x", "v2")>>, <<Bind("x", "v2"), Hang>> }
\* Executions a session is sent before its next load.
MaxIsolationRuns == 2

NextIsolation ==
    \/ \E p \in IsolationPaths, s \in IsolationIds : rlm_load_file(p, s)
    \/ \E ps \in IsolationMultiPaths, s \in IsolationIds : rlm_load_multiple_files(ps, s)
    \/ \E s \in IsolationIds, c \in IsolationCodes, ok \in BOOLEAN :
          /\ s \in DOMAIN repl_sessions => repl_sessions[s].execution_count < MaxIsolationRuns
          /\ rlm_execute_code(s, c, ok)
    \/ \E s \in IsolationIds : rlm_reset_session(s)
    \/ WorkerRun
    \/ WorkerFlush
    \/ WorkerDies
    \/ Deadline
    \/ GraceExpired
    \/ ReturnTimeout
    \/ ReturnJoined

IsolationSpec == Init /\ [][NextIsolation]_vars

(***************************************************************************)
(* Properties                                                              *)
(***************************************************************************)
Sessions == DOMAIN repl_sessions
Count(s) == repl_sessions[s].execution_count
Globals(s) == repl_sessions[s].globals
\* The names of a session's namespace, __builtins__ aside.
Variables(s) == DOMAIN Globals(s) \ {"__builtins__"}

\* The step is the handling of a call of the tool for session s (up to its
\* return, or to process.start() for an execution).
Called(tool, s) ==
    /\ pc = "idle"
    /\ response'.tool = tool
    /\ response'.session_id = s

\* C1: in every reachable state the execution_count of every session lies
\* between 0 and MAX_EXECUTIONS_PER_SESSION, whatever loads, executions (of
\* any outcome) and resets came before.
C1_ExecutionCountBounded ==
    \A s \in Sessions : Count(s) \in 0..MAX_EXECUTIONS_PER_SESSION

\* The quota is reached by executions that ended in a timeout.
C1_Witness ==
    \E s \in Sessions :
        /\ Count(s) = MAX_EXECUTIONS_PER_SESSION
        /\ response.result.error = ERR_TIMEOUT

\* C2: an execute call on a session whose execution_count has reached the
\* quota returns success=false with the session-limit error and changes
\* nothing: no worker is spawned, the count and the namespace stay.
C2_RefusalChangesNothing ==
    [][\A s \in SessionIds :
          (/\ Called("rlm_execute_code", s)
           /\ s \in Sessions
           /\ Count(s) >= MAX_EXECUTIONS_PER_SESSION)
          => /\ response'.result = ExecutionResult(0, FALSE, ERR_LIMIT)
             /\ process' = "none"
             /\ UNCHANGED <<repl_sessions, session_reset_counts, pc>>]_vars

\* A refused call on a session that holds a variable bound by earlier code.
C2_Witness ==
    \E s \in Sessions :
        /\ response = executed(s, ExecutionResult(0, FALSE, ERR_LIMIT))
        /\ Count(s) = MAX_EXECUTIONS_PER_SESSION
        /\ "x" \in Variables(s)

\* C3: every execute call the quota check lets through raises the session's
\* execution_count by exactly one when it is made, and nothing that follows
\* (the worker's run, a timeout, a missing result, a failed start, the
\* return) changes the count again.
C3_CountedExactlyOnce ==
    [][\A s \in Sessions :
          /\ (Called("rlm_execute_code", s) /\ Count(s) < MAX_EXECUTIONS_PER_SESSION)
                => (s \in Sessions' /\ Count(s)' = Count(s) + 1)
          /\ pc # "idle" => (s \in Sessions' /\ Count(s)' = Count(s))]_vars

\* One call was made on the session and it ended in a timeout: the count is 1.
C3_Witness ==
    \E s \in Sessions :
        /\ Count(s) = 1
        /\ response = executed(s, ExecutionResult(0, FALSE, ERR_TIMEOUT))

\* C4: the reset count of a session id never exceeds MAX_SESSION_RESETS, and
\* a reset asked for at the quota is refused, leaving the session (namespace
\* and execution_count, when it exists) and the reset count as they were.
C4_ResetBounded ==
    /\ [](\A s \in DOMAIN session_reset_counts :
              session_reset_counts[s] \in 0..MAX_SESSION_RESETS)
    /\ [][\A s \in SessionIds :
            (Called("rlm_reset_session", s) /\ reset_count(s) >= MAX_SESSION_RESETS)
            => /\ response'.text = "Reset limit reached"
               /\ UNCHANGED <<repl_sessions, session_reset_counts, pc>>]_vars

\* A refused reset of a session that exists and has run code.
C4_Witness ==
    \E s \in Sessions :
        /\ response.tool = "rlm_reset_session"
        /\ response.text = "Reset limit reached"
        /\ reset_count(s) = MAX_SESSION_RESETS
        /\ Count(s) > 0
        /\ "x" \in Variables(s)

\* C5: the output of every ExecutionResult execute returns has at most
\* MAX_OUTPUT_CHARS characters, truncated output included.
C5_OutputWithinMaximum ==
    response.result.output <= MAX_OUTPUT_CHARS

\* Waiting for the worker after the deadline passed with the worker alive.
AfterDeadline == pc \in {"join_term", "join_kill"}

\* C6: when the worker is alive at the deadline, execute returns
\* success=false with the TIMEOUT error, and from the call to its return the
\* namespace of every session stays what it was: nothing the worker bound,
\* rebound or put on the queue is merged.
C6_TimeoutMergesNothing ==
    [][/\ AfterDeadline => (AfterDeadline' \/ pc' = "idle")
       /\ (AfterDeadline /\ pc' = "idle")
             => response' = executed(running, ExecutionResult(0, FALSE, ERR_TIMEOUT))
       /\ (pc' # "idle" \/ AfterDeadline)
             => \A s \in Sessions : s \in Sessions' /\ Globals(s)' = Globals(s)]_vars

\* A call timed out although the worker had bound x and its outcome had
\* reached the queue; the session has no x.
C6_Witness ==
    \E s \in Sessions :
        /\ response = executed(s, ExecutionResult(0, FALSE, ERR_TIMEOUT))
        /\ output_queue # <<>>
        /\ "x" \in DOMAIN Head(output_queue).variables
        /\ "x" \notin Variables(s)

\* The worker reported that the code raised: the record in the queue is a failure.
RaisedOutcome == output_queue # <<>> /\ ~Head(output_queue).success

\* C7: when the code raises, the worker's record carries a non-empty error
\* and no variables, and execute returns success=false with that error and
\* leaves the namespace as it was before the call: what the code bound
\* before the raise is not in the session.
C7_RuntimeErrorMergesNothing ==
    /\ []((pending # NoOutcome /\ ~pending.success)
            => (pending.variables = EmptyMap /\ pending.error \notin {"", "None", "-"}))
    /\ [][(pc = "join" /\ pc' = "idle" /\ RaisedOutcome)
            => /\ ~response'.result.success
               /\ response'.result.error = Head(output_queue).error
               /\ response'.result.error \notin {"", "None", "-"}
               /\ repl_sessions' = repl_sessions]_vars

\* The code bound x to v2 and raised; the call returned the error and the
\* session does not hold that binding.
C7_Witness ==
    \E s \in Sessions :
        /\ response = executed(s, ExecutionResult(0, FALSE, "RuntimeError: boom"))
        /\ "x" \in DOMAIN exec_globals /\ exec_globals["x"] = "v2"
        /\ ("x" \in Variables(s) => Globals(s)["x"] # "v2")

\* The step is a load or a reset of session s.
Reloaded(s) ==
    \/ Called("rlm_load_file", s)
    \/ Called("rlm_load_multiple_files", s)
    \/ Called("rlm_reset_session", s)

\* The step is the return of a completed, successful execution on session s.
Succeeded(s) ==
    pc = "join" /\ pc' = "idle" /\ running = s /\ response'.result.success

\* Round trip for the names in ns: (1) a successful execution leaves every
\* such name that the code left bound to a transferable, non-callable value
\* in the session with that value; (2) the value stays until a load or reset
\* of the session or a successful execution that rebinds the name; (3) the
\* worker of every later execution starts with the name bound to it.
RoundTrip(ns) ==
    \A s \in Sessions :
        /\ Succeeded(s) =>
              \A n \in DOMAIN exec_globals \cap ns :
                  (picklable(exec_globals[n]) /\ ~is_callable(exec_globals[n]))
                      => /\ n \in DOMAIN Globals(s)'
                         /\ Globals(s)'[n] = exec_globals[n]
        /\ ~Reloaded(s) =>
              \A n \in DOMAIN Globals(s) \cap ns :
                  /\ s \in Sessions'
                  /\ n \in DOMAIN Globals(s)'
                  /\ \/ Globals(s)'[n] = Globals(s)[n]
                     \/ /\ Succeeded(s)
                        /\ n \in DOMAIN exec_globals
                        /\ Globals(s)'[n] = exec_globals[n]
        /\ (pc = "idle" /\ pc' = "join" /\ running' = s) =>
              \A n \in DOMAIN Globals(s) \cap ns :
                  picklable(Globals(s)[n])
                      => (n \in DOMAIN exec_globals' /\ exec_globals'[n] = Globals(s)[n])

AllNames == {"__builtins__", "context", "context_length", "file_path", "x"}

\* C8 as claimed: the round trip holds for every top-level name.
C8_RoundTripEveryName == [][RoundTrip(AllNames)]_vars

\* C8, amended: the round trip holds for every top-level name but
\* __builtins__, which is never taken from a worker's snapshot.
C8_RoundTripButBuiltins == [][RoundTrip(AllNames \ {"__builtins__"})]_vars

\* The worker of a later call is about to run "x = v1" and has started with
\* x bound to v2, the value an earlier call left in the session.
C8_Witness ==
    /\ pc = "join" /\ process = "running"
    /\ code = <<Bind("x", "v1")>>
    /\ "x" \in DOMAIN exec_globals /\ exec_globals["x"] = "v2"
    /\ Globals(running)["x"] = "v2"

\* The namespace rlm_load_file leaves for path p.
FileSeed(p) ==
    [k \in {"__builtins__", "context", "context_length", "file_path"} |->
        CASE k = "__builtins__" -> BUILTINS
          [] k = "context" -> read_file(p)
          [] k = "context_length" -> file_size(read_file(p))
          [] OTHER -> p]
\* The namespace rlm_load_multiple_files leaves for the paths ps.
FilesSeed(ps) ==
    [k \in {"__builtins__", "context", "context_length"} |->
        CASE k = "__builtins__" -> BUILTINS
          [] k = "context" -> IF existing(ps) = {} THEN "" ELSE contexts_of(ps)
          [] OTHER -> total_size(ps)]

\* C9: a load into a session id, whatever state the id had, leaves a session
\* whose namespace holds the newly seeded content and the loader's own
\* entries and nothing else, with execution_count 0.
C9_LoadDiscardsState ==
    [][\A s \in SessionIds :
          /\ (Called("rlm_load_file", s) /\ response'.text = "File loaded")
                => \E p \in Paths :
                      /\ path_exists(p)
                      /\ s \in Sessions'
                      /\ repl_sessions'[s] = [globals |-> FileSeed(p), execution_count |-> 0]
          /\ Called("rlm_load_multiple_files", s)
                => \E ps \in MultiPaths :
                      /\ s \in Sessions'
                      /\ repl_sessions'[s] = [globals |-> FilesSeed(ps), execution_count |-> 0]]_vars

\* A load that found a session under its id: the seed only is left, and no
\* execution is counted.
C9_Witness ==
    \E s \in Sessions :
        /\ response.tool = "rlm_load_file" /\ response.text = "File loaded"
        /\ response.session_id = s /\ response.existed
        /\ Count(s) = 0
        /\ Variables(s) = {"context", "context_length", "file_path"}

\* The step is a reset of session s asked for below the quota.
ResetBelowQuota(s) ==
    Called("rlm_reset_session", s) /\ reset_count(s) < MAX_SESSION_RESETS

\* C10 as claimed: a reset below the quota succeeds and leaves the id with a
\* fresh session: a namespace empty apart from the seed, execution_count 0.
C10_ResetLeavesFreshSession ==
    [][\A s \in SessionIds :
          ResetBelowQuota(s)
          => /\ response'.text = "Session reset"
             /\ s \in Sessions'
             /\ Count(s)' = 0
             /\ Variables(s)' \subseteq {"context", "context_length", "file_path"}]_vars

\* C10, amended: a reset below the quota succeeds, raises the reset count by
\* one and deletes the session; code sent to an id without a session is not
\* run and creates none.
C10_ResetDeletesSession ==
    [][\A s \in SessionIds :
          /\ ResetBelowQuota(s)
                => /\ response'.text = "Session reset"
                   /\ s \in DOMAIN session_reset_counts'
                   /\ session_reset_counts'[s] = reset_count(s) + 1
                   /\ s \notin Sessions'
          /\ (Called("rlm_execute_code", s) /\ s \notin Sessions)
                => /\ response'.text = "Error: No file loaded"
                   /\ s \notin Sessions'
                   /\ process' = "none" /\ pc' = "idle"]_vars

\* Code was sent to a session id after its reset: it was not run.
C10_Witness ==
    \E s \in SessionIds :
        /\ response = Response("rlm_execute_code", s, "Error: No file loaded", NoExecution)
        /\ reset_count(s) > 0
        /\ s \notin Sessions

\* The step is a load into session s.
Loaded(s) == Called("rlm_load_file", s) \/ Called("rlm_load_multiple_files", s)

\* C11: the reset count of a session id lives apart from the session: a load
\* leaves every reset count as it was (it spends no reset quota), the deletion
\* of a session never drops or lowers a reset count, and a load is never
\* refused for the reset quota: at an exhausted quota it still answers as a
\* load does and, when it loads, leaves a new session.
C11_ResetCountOutlivesSession ==
    [][/\ \A s \in SessionIds :
            /\ Loaded(s) => session_reset_counts' = session_reset_counts
            /\ Called("rlm_load_file", s)
                  => /\ response'.text \in {"File loaded", "Error: File not found"}
                     /\ response'.text = "File loaded"
                           => (s \in Sessions' /\ Count(s)' = 0)
                     /\ response'.text = "Error: File not found"
                           => repl_sessions' = repl_sessions
            /\ Called("rlm_load_multiple_files", s)
                  => /\ response'.text = "files loaded"
                     /\ s \in Sessions' /\ Count(s)' = 0
       /\ \A s \in DOMAIN session_reset_counts :
            /\ s \in DOMAIN session_reset_counts'
            /\ session_reset_counts'[s] >= session_reset_counts[s]
            /\ session_reset_counts'[s] # session_reset_counts[s]
                  => Called("rlm_reset_session", s)]_vars

\* A file was loaded into a session id whose reset quota is used up.
C11_Witness ==
    \E s \in Sessions :
        /\ response = Response("rlm_load_file", s, "File loaded", NoExecution)
        /\ reset_count(s) = MAX_SESSION_RESETS
        /\ Count(s) = 0

\* The worker ran the code to its end and built the record of a success.
Completed == pending # NoOutcome /\ pending.success

\* The names the namespace g binds to a non-callable value that cannot cross
\* the process boundary, and those it binds to one that can.
NonTransferable(g) ==
    {n \in DOMAIN g \ {"__builtins__"} : ~is_callable(g[n]) /\ ~picklable(g[n])}
Transferable(g) ==
    {n \in DOMAIN g \ {"__builtins__"} : ~is_callable(g[n]) /\ picklable(g[n])}

\* The call returns after the worker exited before the deadline.
JoinedReturn == pc = "join" /\ pc' = "idle"

\* C12: when code that ran to its end leaves a non-callable value bound that
\* cannot cross the process boundary, execute returns success=true with no
\* error, the session does not take that value, and every other
\* transferable, non-callable name the code left bound is in the session.
C12_NonTransferableOmitted ==
    [][(JoinedReturn /\ Completed /\ NonTransferable(exec_globals) # {})
         => /\ response'.result.success
            /\ response'.result.error = "None"
            /\ \A n \in NonTransferable(exec_globals) :
                  n \in DOMAIN Globals(running)' =>
                      Globals(running)'[n] # exec_globals[n]
            /\ \A n \in Transferable(exec_globals) :
                  /\ n \in DOMAIN Globals(running)'
                  /\ Globals(running)'[n] = exec_globals[n]]_vars

\* The worker can hand its record over: the feeder thread drops it, or the
\* pipe takes it whole without anybody reading.
HandOverPossible == ~outcome_picklable(pending) \/ outcome_size(pending) <= PIPE_CAPACITY

\* C13: when the code finished before the deadline and the worker's record
\* reached the channel, execute returns the record's success and error and
\* merges its snapshot; and the deadline finds the worker alive only while
\* the code is still running (or in a hand-over that is about to end),
\* whatever the size of the record: never blocked on a finished run.
C13_CompletionReturnsOutcome ==
    [][/\ (JoinedReturn /\ pending # NoOutcome /\ outcome_picklable(pending))
            => /\ response'.result.success = pending.success
               /\ response'.result.error = pending.error
               /\ Globals(running)' = merge_variables(Globals(running), pending.variables)
       /\ (pc = "join" /\ pc' = "join_term")
            => (process = "running" \/ (process = "flushing" /\ HandOverPossible))
       /\ (AfterDeadline /\ pc' = "idle")
            => (pending = NoOutcome \/ HandOverPossible)]_vars

\* C14: every execute call that started a worker returns an ExecutionResult,
\* whatever the worker does, and an execute on a session below its quota is
\* run whatever the calls before it came to: it is never answered with the
\* refusal, it either starts a worker or returns a result at once.
C14_EveryCallReturns ==
    /\ [](pc # "idle" =>
            <>(/\ pc = "idle"
               /\ response.tool = "rlm_execute_code"
               /\ response.result # NoExecution))
    /\ [][\A s \in Sessions :
            (Called("rlm_execute_code", s) /\ Count(s) < MAX_EXECUTIONS_PER_SESSION)
            => /\ response'.result.error # ERR_LIMIT
               /\ pc' = "join" \/ response'.result # NoExecution]_vars

\* A second call on a session returned after its worker hung and was killed.
C14_Witness ==
    \E s \in Sessions :
        /\ response = executed(s, ExecutionResult(0, FALSE, ERR_TIMEOUT))
        /\ pending = NoOutcome /\ process = "exited"
        /\ Count(s) >= 2

\* Session s has used up its execution quota.
QuotaReached(s) == s \in Sessions /\ Count(s) >= MAX_EXECUTIONS_PER_SESSION

\* An execute addressed to a session at its quota is refused.
RefusedAtQuota(s) ==
    (QuotaReached(s) /\ Called("rlm_execute_code", s))
        => response'.result = ExecutionResult(0, FALSE, ERR_LIMIT)

\* C15 as claimed: once a session id has reached its execution quota it
\* stays there whatever is done next, and every execute addressed to it is
\* refused.
C15_RefusalTerminal ==
    [][\A s \in SessionIds :
          /\ RefusedAtQuota(s)
          /\ QuotaReached(s) => QuotaReached(s)']_vars

\* C15, amended: once a session has reached its execution quota every
\* execute addressed to it is refused for as long as that session lives: no
\* execute and no refused reset lifts the refusal.  Only a load into the id,
\* which replaces the session by one whose count is 0, or a granted reset,
\* which deletes it, ends it.
C15_RefusalLastsForSession ==
    [][\A s \in SessionIds :
          /\ RefusedAtQuota(s)
          /\ (QuotaReached(s) /\ ~QuotaReached(s)')
                => \/ Loaded(s) /\ s \in Sessions' /\ Count(s)' = 0
                   \/ ResetBelowQuota(s) /\ s \notin Sessions']_vars

\* An execute was refused on a session that reached its quota after the id
\* had been reset and loaded again.
C15_Witness ==
    \E s \in Sessions :
        /\ response = executed(s, ExecutionResult(0, FALSE, ERR_LIMIT))
        /\ QuotaReached(s)
        /\ reset_count(s) > 0

\* The stages of the escalation, read off the engine's position and the
\* process: the worker runs and nothing was requested; terminate() was
\* called; kill() was called; the process is gone.
Running == pc = "join" /\ Alive
TerminateRequested == pc = "join_term" /\ Alive
KillRequested == pc = "join_kill" /\ Alive
Exited == process = "exited"

\* C16: the termination of a worker follows Running -> TerminateRequested ->
\* (Exited | KillRequested -> Exited).  terminate() is called only at the
\* deadline with the worker alive, kill() only after terminate() and a grace
\* period that ended with the worker alive, and no worker is alive when its
\* execute call returns or while no call is being handled.
C16_EscalationOrder ==
    /\ [](pc = "idle" => ~Alive)
    /\ [][/\ (TerminateRequested' /\ ~TerminateRequested) => Running
          /\ (KillRequested' /\ ~KillRequested) => TerminateRequested
          /\ Running => (Running' \/ TerminateRequested' \/ Exited')
          /\ TerminateRequested => (TerminateRequested' \/ KillRequested' \/ Exited')
          /\ KillRequested => (KillRequested' \/ Exited')
          /\ (pc # "idle" /\ pc' = "idle") => (Exited /\ Exited')
          /\ (Exited /\ pc # "idle") => Exited']_vars

\* The worker outlived the grace period, kill() was called, and it is gone.
C16_Witness ==
    /\ pc = "join_kill" /\ Exited
    /\ pending = NoOutcome

\* C17: calls are handled one at a time.  From the start of a worker to the
\* return of its execute call no other call is handled: the answer slot, the
\* set of sessions, the reset counts and the session being run against change
\* only by that call's own return; a worker is alive only within an execute
\* call, and one is started only when none is alive.
C17_OneCallAtATime ==
    /\ [](Alive => (pc # "idle" /\ running \in Sessions))
    /\ [][/\ pc # "idle" =>
                /\ running' = running
                /\ Sessions' = Sessions
                /\ session_reset_counts' = session_reset_counts
                /\ \A s \in Sessions \ {running} : repl_sessions'[s] = repl_sessions[s]
                /\ \/ response' = response
                   \/ /\ pc' = "idle"
                      /\ response'.tool = "rlm_execute_code"
                      /\ response'.session_id = running
                      /\ response'.result # NoExecution
          /\ (process' = "running" /\ process # "running")
                => (pc = "idle" /\ ~Alive /\ pc' = "join")]_vars

\* The worker of a session's second execution is running: the first call
\* had returned before this one began.
C17_Witness ==
    /\ pc = "join" /\ process = "running"
    /\ Count(running) = 2
    /\ response = Response("rlm_execute_code", running, "-", NoExecution)

\* C18: when the worker process is gone before the deadline and the queue is
\* empty, execute returns success=false with the error "No result from
\* execution" and no output, and every session is left as it was (the count
\* was raised when the call was made).
C18_NoResultIsFailure ==
    [][(JoinedReturn /\ output_queue = <<>>)
         => /\ response' = executed(running, ExecutionResult(0, FALSE, ERR_NO_RESULT))
            /\ response'.result.output = 0
            /\ response'.result.error = "No result from execution"
            /\ repl_sessions' = repl_sessions]_vars

\* The code bound x to v2 and ended the process; the call returned the
\* no-result error and the session does not hold that binding.
C18_Witness ==
    \E s \in Sessions :
        /\ response = executed(s, ExecutionResult(0, FALSE, ERR_NO_RESULT))
        /\ pending = NoOutcome
        /\ "x" \in DOMAIN exec_globals /\ exec_globals["x"] = "v2"
        /\ ("x" \in Variables(s) => Globals(s)["x"] # "v2")

\* The step is the handling of a submission that is empty after the cleanup,
\* sent to session s.
EmptySubmission(s) ==
    \E c \in Codes, ok \in BOOLEAN :
        clean_code(c) = <<>> /\ rlm_execute_code(s, c, ok)

\* C19: a submission that is empty after the cleanup, sent to a session
\* below its quota, returns success=true with the output "(empty code)" (12
\* characters) and no error, starts no worker, leaves the namespace and the
\* other sessions as they were and raises execution_count by one.
C19_EmptyCodeCounted ==
    [][\A s \in Sessions :
          (EmptySubmission(s) /\ Count(s) < MAX_EXECUTIONS_PER_SESSION)
          => /\ response'.result = ExecutionResult(EMPTY_CODE_CHARS, TRUE, "None")
             /\ pc' = "idle" /\ process' = "none"
             /\ repl_sessions' = [repl_sessions EXCEPT ![s].execution_count = @ + 1]]_vars

\* A submission of markup only was answered; it is the one call the session
\* has counted.
C19_Witness ==
    \E s \in Sessions :
        /\ response = executed(s, ExecutionResult(EMPTY_CODE_CHARS, TRUE, "None"))
        /\ Count(s) = 1
        /\ process = "none"

\* C20: within a session's lifetime (no load or reset of its id) the names
\* of its namespace never shrink: a step only adds names or overwrites
\* values, a name the worker deleted or did not report keeps the value it
\* had, and every session holds 'context' (and __builtins__) in every state.
C20_NamespaceNeverShrinks ==
    /\ [](\A s \in Sessions : {"__builtins__", "context"} \subseteq DOMAIN Globals(s))
    /\ [][\A s \in Sessions :
            ~Reloaded(s) =>
                /\ s \in Sessions'
                /\ DOMAIN Globals(s) \subseteq DOMAIN Globals(s)'
                /\ \A n \in DOMAIN Globals(s) :
                      (Globals(s)'[n] # Globals(s)[n])
                          => /\ JoinedReturn /\ running = s
                             /\ output_queue # <<>>
                             /\ n \in DOMAIN Head(output_queue).variables
                             /\ Globals(s)'[n] = Head(output_queue).variables[n]]_vars

\* Code that deleted 'context' ran to its end and was merged: the session
\* still holds 'context'.
C20_Witness ==
    \E s \in Sessions :
        /\ pc = "idle" /\ response.tool = "rlm_execute_code"
        /\ response.result.success /\ Completed
        /\ "context" \notin DOMAIN exec_globals
        /\ "context" \in Variables(s)

\* The session id the step is about: the one the call names, or the one the
\* waiting execute runs against.
Addressed == IF pc = "idle" THEN response'.session_id ELSE running

\* C21: a load, an execute (from the call to its return, the worker's steps
\* included) or a reset addressed to one session id leaves every other id as
\* it was: whether it has a session, that session's namespace and
\* execution_count, and its reset count.  A worker starts with nothing but
\* the names and values of the session it is run against.
C21_SessionIsolation ==
    [][/\ \A t \in IsolationIds \ {Addressed} :
            /\ t \in Sessions <=> t \in Sessions'
            /\ t \in Sessions => repl_sessions'[t] = repl_sessions[t]
            /\ t \in DOMAIN session_reset_counts <=> t \in DOMAIN session_reset_counts'
            /\ t \in DOMAIN session_reset_counts
                  => session_reset_counts'[t] = session_reset_counts[t]
       /\ (pc = "idle" /\ pc' = "join")
            => \A n \in DOMAIN exec_globals' \ {"__builtins__"} :
                  /\ n \in DOMAIN Globals(running')
                  /\ exec_globals'[n] = Globals(running')[n]]_vars

\* Two sessions hold different values of x, and the worker run against one
\* of them has started with that session's value.
C21_Witness ==
    /\ pc = "join" /\ process = "running"
    /\ running = "default" /\ "other" \in Sessions
    /\ "x" \in DOMAIN exec_globals /\ exec_globals["x"] = "v1"
    /\ "x" \in Variables("other") /\ Globals("other")["x"] = "v2"
    /\ reset_count("other") > 0
====
